---- MODULE Spec2Model ----
(***************************************************************************)
(* Model of the address parsing rules of app/address_rules.py and of the   *)
(* /parse handler of app/main.py.                                          *)
(*                                                                         *)
(* A text is a sequence of symbols.  A symbol is one character (a digit,   *)
(* a white space, a comma, a separator, a single letter) or one maximal    *)
(* run of letters that the rules know as a word:                           *)
(*   "BAIR"   BAIR                  "KORPUS" KORPUS                        *)
(*   "TOOT"   TOOT                  "NO"     NO                            *)
(*   "cTOOT"  Cyrillic TOOT         "cT"     Cyrillic T (one letter)       *)
(*   "HOROO"  HOROO                 "H"      H (one letter)                *)
(*   "R"      R (one letter)        "A"      any other single letter       *)
(*   "SBD"    alias of the district "cSUKHBAATAR"                          *)
(*   "UB"     the city                                                     *)
(* "bair", "toot", "sbd" are lower-case spellings and "numero" is the      *)
(* sign U+2116; they exist only before _nfkc_upper.                        *)
(* Every regular expression of the source is written as a sequence of      *)
(* items and run by one backtracking matcher (Match), so that priority,    *)
(* greediness, word boundaries and look-arounds are those of Python's re.  *)
(***************************************************************************)
EXTENDS Integers, Sequences, FiniteSets, TLC

VARIABLES
  pc,               \* the step the call is at
  caller,           \* "service" (POST /parse) or "direct" (parse_with_rules)
  raw,              \* the text of the request
  arg,              \* the text handed to parse_with_rules
  norm,             \* NORMALIZED
  sumname,          \* SUMNAME_PRED
  horooid,          \* HOROOID_PRED
  content,          \* the text after the removal of the horoo
  content_u,        \* the residual text, handed to the building rules
  bair,             \* BAIR_PRED
  korpus,           \* KORPUS_PRED
  xaalga,           \* XAALGA_PRED
  matched_pattern,  \* MATCHED_PATTERN
  keyword_matched,
  warnings,         \* WARNINGS
  conf              \* CONFIDENCE, in hundredths

vars == <<pc, caller, raw, arg, norm, sumname, horooid, content, content_u,
          bair, korpus, xaalga, matched_pattern, keyword_matched, warnings,
          conf>>

\* ------------------------------------------------------------ the alphabet

Digits == {"0", "1", "2", "3", "4", "5", "6", "7", "8", "9"}
SingleLetters == {"A", "H", "R", "cT"}
WordLetters == {"BAIR", "KORPUS", "TOOT", "NO", "cTOOT", "HOROO",
                "SBD", "UB"}
LowerLetters == {"bair", "toot", "sbd"}
Letters == SingleLetters \cup WordLetters \cup LowerLetters \cup {"numero"}
WS == {" ", "\t"}
\* SEP_CHARS: . \ / - # $ ^ & * ? ` ~ : ; < > | ("bslash" is the backslash,
\* "btick" the backtick)
SEP_CHARS == {".", "bslash", "/", "-", "#", "$", "^", "&", "*", "?", "btick",
              "~",
              ":", ";", "<", ">", "|"}
\* the class [-./] of RE_BAIR_XAALGA_TOKEN and of the horoo-number guard
DASH_DOT_SLASH == {"-", ".", "/"}

\* \w of Python's re on str: letters and digits
IsWordSym(c) == c \in Digits \cup Letters

\* the number of characters a symbol stands for
SymLen(c) ==
  CASE c \in {"BAIR", "TOOT", "bair", "toot"} -> 4
    [] c = "cTOOT" -> 4
    [] c = "KORPUS" -> 6
    [] c = "HOROO" -> 5
    [] c \in {"SBD", "sbd"} -> 3
    [] c \in {"NO", "UB"} -> 2
    [] OTHER -> 1

DigitVal(c) ==
  CASE c = "0" -> 0 [] c = "1" -> 1 [] c = "2" -> 2 [] c = "3" -> 3
    [] c = "4" -> 4 [] c = "5" -> 5 [] c = "6" -> 6 [] c = "7" -> 7
    [] c = "8" -> 8 [] c = "9" -> 9

DigitSym(n) ==
  CASE n = 0 -> "0" [] n = 1 -> "1" [] n = 2 -> "2" [] n = 3 -> "3"
    [] n = 4 -> "4" [] n = 5 -> "5" [] n = 6 -> "6" [] n = 7 -> "7"
    [] n = 8 -> "8" [] n = 9 -> "9"

\* int(m.group(k)) on a run of digits
RECURSIVE ToInt(_)
ToInt(ds) ==
  IF ds = <<>> THEN 0
  ELSE 10 * ToInt(SubSeq(ds, 1, Len(ds) - 1)) + DigitVal(ds[Len(ds)])

\* str(n) for n >= 0
RECURSIVE IntToStr(_)
IntToStr(n) ==
  IF n < 10 THEN <<DigitSym(n)>>
  ELSE Append(IntToStr(n \div 10), DigitSym(n % 10))

\* ------------------------------------------------- the regular expressions

\* the items of a regular expression
WBd == [t |-> "wb"]                                  \* \b
Rep(cls, min, max) == [t |-> "rep", cls |-> cls, min |-> min, max |-> max]
AtLeast(cls, min) == [t |-> "atleast", cls |-> cls, min |-> min] \* c* and c+
Open(g) == [t |-> "open", g |-> g]                   \* ( of group g
Close(g) == [t |-> "close", g |-> g]                 \* ) of group g
Alt(alts) == [t |-> "alt", alts |-> alts]            \* (?:a|b|...)
NotAhead(re) == [t |-> "nla", re |-> re]             \* (?!re)
NotBehind(cls) == [t |-> "nlb", cls |-> cls]         \* (?<!c)
Eol == [t |-> "eol"]                                 \* $

One(cls) == Rep(cls, 1, 1)
Lit(c) == <<One({c})>>
Opt(re) == Alt(<<re, <<>>>>)
Cap(g, re) == <<Open(g)>> \o re \o <<Close(g)>>
DigitRun(min, max) == <<Rep(Digits, min, max)>>      \* \d{min,max}
DigitsPlus == <<AtLeast(Digits, 1)>>                 \* \d+
SpacesStar == AtLeast(WS, 0)                         \* \s*
SpacesPlus == AtLeast(WS, 1)                         \* \s+

NoMatch == [ok |-> FALSE]
NoCaps == [g \in 1..4 |-> <<0, 0>>]

WordBoundary(s, p) ==
  LET before == p > 1 /\ IsWordSym(s[p - 1])
      after == p <= Len(s) /\ IsWordSym(s[p])
  IN before # after

\* the length of the run of symbols of cls from position p on
RECURSIVE RunLen(_, _, _)
RunLen(s, p, cls) ==
  IF p > Len(s) THEN 0
  ELSE IF s[p] \notin cls THEN 0
  ELSE 1 + RunLen(s, p + 1, cls)

Min(a, b) == IF a < b THEN a ELSE b

\* Match(re, s, p, caps): the first way, in the order Python's backtracking
\* tries them, to match re from position p of s
RECURSIVE Match(_, _, _, _)
RECURSIVE TryRep(_, _, _, _, _, _)
RECURSIVE TryAlt(_, _, _, _, _, _)

TryRep(rest, s, p, caps, k, min) ==
  IF k < min THEN NoMatch
  ELSE LET r == Match(rest, s, p + k, caps)
       IN IF r.ok THEN r ELSE TryRep(rest, s, p, caps, k - 1, min)

TryAlt(alts, i, rest, s, p, caps) ==
  IF i > Len(alts) THEN NoMatch
  ELSE LET r == Match(alts[i] \o rest, s, p, caps)
       IN IF r.ok THEN r ELSE TryAlt(alts, i + 1, rest, s, p, caps)

Match(re, s, p, caps) ==
  IF re = <<>> THEN [ok |-> TRUE, end |-> p, caps |-> caps]
  ELSE
    LET h == Head(re)
        rest == Tail(re)
    IN CASE h.t = "wb" ->
              IF WordBoundary(s, p) THEN Match(rest, s, p, caps) ELSE NoMatch
         [] h.t = "eol" ->
              IF p = Len(s) + 1 THEN Match(rest, s, p, caps) ELSE NoMatch
         [] h.t = "open" ->
              Match(rest, s, p, [caps EXCEPT ![h.g] = <<p, p>>])
         [] h.t = "close" ->
              Match(rest, s, p, [caps EXCEPT ![h.g] = <<@[1], p>>])
         [] h.t = "rep" ->
              TryRep(rest, s, p, caps, Min(RunLen(s, p, h.cls), h.max), h.min)
         [] h.t = "atleast" ->
              TryRep(rest, s, p, caps, RunLen(s, p, h.cls), h.min)
         [] h.t = "alt" ->
              TryAlt(h.alts, 1, rest, s, p, caps)
         [] h.t = "nla" ->
              IF Match(h.re, s, p, caps).ok THEN NoMatch
              ELSE Match(rest, s, p, caps)
         [] h.t = "nlb" ->
              IF p > 1 /\ s[p - 1] \in h.cls THEN NoMatch
              ELSE Match(rest, s, p, caps)

\* re.search from position p on: the leftmost match, with its start
RECURSIVE SearchFrom(_, _, _)
SearchFrom(re, s, p) ==
  IF p > Len(s) + 1 THEN NoMatch
  ELSE LET r == Match(re, s, p, NoCaps)
       IN IF r.ok THEN [ok |-> TRUE, start |-> p, end |-> r.end, caps |-> r.caps]
          ELSE SearchFrom(re, s, p + 1)

Search(re, s) == SearchFrom(re, s, 1)

\* m.group(g): the text of group g (empty when the group took no part)
Group(m, s, g) == SubSeq(s, m.caps[g][1], m.caps[g][2] - 1)

\* re.sub(re, repl, s), every match left to right; repl is r"\1 \2" when
\* glue is TRUE and " " otherwise.  No expression of the source matches the
\* empty string.
RECURSIVE SubFrom(_, _, _, _)
SubFrom(re, s, p, glue) ==
  LET m == SearchFrom(re, s, p)
  IN IF ~m.ok THEN SubSeq(s, p, Len(s))
     ELSE SubSeq(s, p, m.start - 1)
          \o (IF glue THEN Group(m, s, 1) \o <<" ">> \o Group(m, s, 2)
              ELSE <<" ">>)
          \o SubFrom(re, s, m.end, glue)

Sub(re, s, glue) == SubFrom(re, s, 1, glue)

\* ------------------------------------------------------------ the constants

\* UNIT_WORD = (?:cTOOT|cT|numero|NO\.?|NO|TOOT|TOOT\.?), in the source's order
UNIT_WORD ==
  Alt(<<Lit("cTOOT"), Lit("cT"), Lit("numero"),
        Lit("NO") \o <<Opt(Lit("."))>>, Lit("NO"),
        Lit("TOOT"), Lit("TOOT") \o <<Opt(Lit("."))>>>>)

BAIR_WORD == Alt(<<Lit("BAIR")>>)                     \* (?:BAIR), both scripts
KORPUS_WORD == Alt(<<Lit("KORPUS")>>)                 \* (?:KORPUS|CORPUS)
HOROO_WORD == Alt(<<Lit("HOROO")>>)                   \* (?:HOROO|KHOROO)
HOROO_SHORT == Alt(<<Lit("H")>>)                      \* (?:H), both scripts
ORDINAL == Alt(<<Lit("-") \o Lit("R")>>)              \* (?:-R), both scripts

\* the keyword list of the two glue expressions
GLUE_WORD ==
  Alt(<<Lit("BAIR"), Lit("KORPUS"), Lit("TOOT"), Lit("cTOOT"), Lit("cT"),
        Lit("numero"), Lit("NO") \o <<Opt(Lit("."))>>, Lit("NO")>>)

RE_SPACES == <<AtLeast(WS, 1)>>
RE_COMMAS == <<AtLeast({","}, 1)>>
RE_UNIT_GLUE ==
  Cap(1, DigitsPlus) \o <<SpacesStar>> \o Cap(2, <<UNIT_WORD>>) \o <<WBd>>
RE_NUM_KEYWORD_GLUE ==
  <<WBd>> \o Cap(1, DigitsPlus) \o <<SpacesStar>> \o Cap(2, <<GLUE_WORD>>)
  \o <<WBd>>
RE_KEYWORD_NUM_GLUE ==
  <<WBd>> \o Cap(1, <<GLUE_WORD>>) \o <<SpacesStar>> \o Cap(2, DigitsPlus)
  \o <<WBd>>

\* ------------------------------------------------------------------ helpers

\* the value of a missing text (Python's None)
None == <<"None">>

\* unicodedata.normalize("NFKC", c).upper() of one symbol
UpperNFKC(c) ==
  CASE c = "bair" -> "BAIR"
    [] c = "toot" -> "TOOT"
    [] c = "sbd" -> "SBD"
    [] c = "numero" -> "NO"
    [] OTHER -> c

\* str.strip(): without the white space (or the symbols of cls) at both ends
RECURSIVE LStrip(_, _)
LStrip(s, cls) ==
  IF s # <<>> /\ Head(s) \in cls THEN LStrip(Tail(s), cls) ELSE s
RECURSIVE RStrip(_, _)
RStrip(s, cls) ==
  IF s # <<>> /\ s[Len(s)] \in cls THEN RStrip(SubSeq(s, 1, Len(s) - 1), cls)
  ELSE s
StripOf(s, cls) == RStrip(LStrip(s, cls), cls)
Strip(s) == StripOf(s, WS)

_nfkc_upper(s) ==
  Strip([i \in 1..Len(IF s = None THEN <<>> ELSE s) |-> UpperNFKC(s[i])])

\* ------------------------------------------------------------ normalization

normalize_address(text) ==
  IF text = None \/ text = <<>> THEN <<>>
  ELSE
    LET s1 == _nfkc_upper(text)
        s2 == [i \in 1..Len(s1) |-> IF s1[i] = "\t" THEN " " ELSE s1[i]]
        s3 == Sub(RE_COMMAS, s2, FALSE)
        s4 == Sub(RE_NUM_KEYWORD_GLUE, s3, TRUE)
        s5 == Sub(RE_KEYWORD_NUM_GLUE, s4, TRUE)
        s6 == Sub(RE_UNIT_GLUE, s5, TRUE)
    IN Strip(Sub(RE_SPACES, s6, FALSE))

\* ----------------------------------------------------------------- district

DISTRICT_MIN_SCORE == 85                              \* 0.85, in hundredths

\* CANON_DISTRICTS, the aliases that the symbols of the model can spell, in
\* the source's order
CANON_DISTRICTS(canon) ==
  IF canon = "cSUKHBAATAR" THEN <<<<"SBD">>>> ELSE <<>>

\* _ALIAS_TO_CANON, as the sequence of its items in insertion order
_ALIAS_TO_CANON == <<[alias |-> <<"SBD">>, canon |-> "cSUKHBAATAR"]>>

AliasLookup(key) ==
  LET hits == {i \in 1..Len(_ALIAS_TO_CANON) : _ALIAS_TO_CANON[i].alias = key}
  IN IF hits = {} THEN "" ELSE _ALIAS_TO_CANON[CHOOSE i \in hits : TRUE].canon

\* RE_WORDS.findall(t): the maximal runs of letters and digits
RECURSIVE TokensFrom(_, _)
TokensFrom(s, p) ==
  IF p > Len(s) THEN <<>>
  ELSE IF ~IsWordSym(s[p]) THEN TokensFrom(s, p + 1)
  ELSE LET n == RunLen(s, p, Digits \cup Letters)
       IN <<SubSeq(s, p, p + n - 1)>> \o TokensFrom(s, p + n)

RECURSIVE CharLen(_)
CharLen(w) == IF w = <<>> THEN 0 ELSE SymLen(Head(w)) + CharLen(Tail(w))

Contains(w, a) ==
  \E i \in 1..(Len(w) - Len(a) + 1) : SubSeq(w, i, i + Len(a) - 1) = a

\* SequenceMatcher(None, w, alias).ratio() in hundredths, rounded down:
\* 2 * M / (len(w) + len(alias)).  M, the number of matching characters, is
\* len(alias) when w holds the alias; otherwise the symbols of the model
\* share too few characters with an alias to reach DISTRICT_MIN_SCORE, and
\* M counts as 0.
Ratio(w, alias) ==
  IF Contains(w, alias)
  THEN (200 * CharLen(alias)) \div (CharLen(w) + CharLen(alias))
  ELSE 0

\* the fuzzy pass: the best alias of score >= DISTRICT_MIN_SCORE, the first
\* seen among equals
RECURSIVE FuzzyBest(_, _, _, _)
FuzzyBest(tokens, i, j, best) ==
  IF i > Len(tokens) THEN best.canon
  ELSE IF j > Len(_ALIAS_TO_CANON) \/ CharLen(tokens[i]) < 2
  THEN FuzzyBest(tokens, i + 1, 1, best)
  ELSE LET a == _ALIAS_TO_CANON[j]
           sc == Ratio(tokens[i], a.alias)
       IN IF CharLen(a.alias) >= 2 /\ sc > best.score
             /\ sc >= DISTRICT_MIN_SCORE
          THEN FuzzyBest(tokens, i, j + 1, [canon |-> a.canon, score |-> sc])
          ELSE FuzzyBest(tokens, i, j + 1, best)

\* the canonical district, or "" for None
_find_district(text) ==
  LET tokens == TokensFrom(_nfkc_upper(text), 1)
      exact == {i \in 1..Len(tokens) : AliasLookup(tokens[i]) # ""}
      pairs == {i \in 1..(Len(tokens) - 1) :
                  AliasLookup(tokens[i] \o tokens[i + 1]) # ""}
      first(S) == CHOOSE i \in S : \A k \in S : i <= k
  IN IF exact # {} THEN AliasLookup(tokens[first(exact)])
     ELSE IF pairs # {}
     THEN AliasLookup(tokens[first(pairs)] \o tokens[first(pairs) + 1])
     ELSE FuzzyBest(tokens, 1, 1, [canon |-> "", score |-> 0])

\* -------------------------------------------------------------------- horoo

RE_HOROO_CLASSIC ==
  Cap(1, DigitRun(1, 2)) \o <<SpacesStar, Opt(<<ORDINAL>>), SpacesStar,
                              HOROO_WORD, WBd>>
RE_HOROO_SHORT ==
  <<WBd>> \o Cap(1, DigitRun(1, 2)) \o <<SpacesStar, HOROO_SHORT, WBd>>

\* re.escape(a) of an alias: its symbols, literally
RECURSIVE LitSeq(_)
LitSeq(a) == IF a = <<>> THEN <<>> ELSE Lit(Head(a)) \o LitSeq(Tail(a))

\* rf"\b{a}\b\s*(\d{{1,2}})\b"
RE_ALIAS_NUMBER(a) ==
  <<WBd>> \o LitSeq(a) \o <<WBd, SpacesStar>> \o Cap(1, DigitRun(1, 2))
  \o <<WBd>>

\* the loop over the aliases of the district: the number after the first
\* alias that has one
RECURSIVE AliasNumber(_, _, _)
AliasNumber(text, aliases, i) ==
  IF i > Len(aliases) THEN 0
  ELSE LET m == Search(RE_ALIAS_NUMBER(_nfkc_upper(aliases[i])),
                       _nfkc_upper(text))
       IN IF m.ok THEN ToInt(Group(m, _nfkc_upper(text), 1))
          ELSE AliasNumber(text, aliases, i + 1)

_find_horoo(text, district) ==
  LET m1 == Search(RE_HOROO_CLASSIC, text)
      m2 == Search(RE_HOROO_SHORT, text)
  IN IF m1.ok THEN ToInt(Group(m1, text, 1))
     ELSE IF m2.ok THEN ToInt(Group(m2, text, 1))
     ELSE IF district # "" THEN AliasNumber(text, CANON_DISTRICTS(district), 1)
     ELSE 0

\* ---------------------------------------------------------- content removal

\* rf"\b{horooid}\s*(?:-R)?\s*(?:HOROO)\b"
RE_HOROO_PHRASE(h) ==
  <<WBd>> \o LitSeq(IntToStr(h))
  \o <<SpacesStar, Opt(<<ORDINAL>>), SpacesStar, HOROO_WORD, WBd>>
\* rf"\b{horooid}\s*(?:H)\b"
RE_HOROO_PHRASE_SHORT(h) ==
  <<WBd>> \o LitSeq(IntToStr(h)) \o <<SpacesStar, HOROO_SHORT, WBd>>

\* (?:BAIR|KORPUS|CORPUS|{UNIT_WORD}) of the horoo-number guard
GUARD_WORD == Alt(<<Lit("BAIR"), Lit("KORPUS"), <<UNIT_WORD>>>>)

\* rf"(?<!\d)\b{horooid}\b(?!\s*[-./]\s*\d)(?!\s*(?:BAIR|...)\b)"
RE_HOROO_NUMBER(h) ==
  <<NotBehind(Digits), WBd>> \o LitSeq(IntToStr(h))
  \o <<WBd,
       NotAhead(<<SpacesStar, One(DASH_DOT_SLASH), SpacesStar, One(Digits)>>),
       NotAhead(<<SpacesStar, GUARD_WORD, WBd>>)>>

\* lines 287-304: the horoo phrase and the horoo number
RemoveHoroo(text, h) ==
  IF h > 0
  THEN Sub(RE_HOROO_NUMBER(h),
           Sub(RE_HOROO_PHRASE_SHORT(h),
               Sub(RE_HOROO_PHRASE(h), text, FALSE), FALSE), FALSE)
  ELSE text

\* the city words that the symbols of the model can spell
CITY_WORDS == <<<<"UB">>>>

RECURSIVE RemoveWords(_, _, _)
RemoveWords(s, skip, i) ==
  IF i > Len(skip) THEN s
  ELSE RemoveWords(
         IF skip[i] # <<>>
         THEN Sub(<<WBd>> \o LitSeq(_nfkc_upper(skip[i])) \o <<WBd>>, s, FALSE)
         ELSE s,
         skip, i + 1)

\* lines 306-317: the city and the aliases of the district
RemoveAliases(text, district) ==
  LET skip == CITY_WORDS \o (IF district # "" THEN CANON_DISTRICTS(district)
                             ELSE <<>>)
  IN Strip(Sub(RE_SPACES, RemoveWords(_nfkc_upper(text), skip, 1), FALSE))

\* ----------------------------------------------------------------- building

\* [A-Z] and its Cyrillic part, one character: no expression of the source
\* lets a letter of that class be followed by another letter
LETTER == One(SingleLetters)

RE_BAIR_KORPUS_XAALGA ==
  <<WBd>> \o Cap(1, DigitRun(1, 5)) \o Cap(2, <<One(SEP_CHARS)>>)
  \o Cap(3, <<Alt(<<<<LETTER>>, DigitRun(1, 2)>>)>>)
  \o <<SpacesPlus>> \o Cap(4, DigitRun(1, 4)) \o <<WBd>>
RE_BAIR_LETTER_XAALGA ==
  <<WBd>> \o Cap(1, DigitRun(1, 5)) \o Cap(2, <<LETTER>>)
  \o <<SpacesPlus>> \o Cap(3, DigitRun(1, 4)) \o <<WBd>>
RE_BAIR_XAALGA ==
  <<WBd>> \o Cap(1, DigitRun(1, 5)) \o <<SpacesPlus>>
  \o Cap(2, DigitRun(1, 4)) \o <<SpacesStar, Opt(<<UNIT_WORD>>), WBd>>
RE_XAALGA_ONLY ==
  <<Alt(<<<<WBd, UNIT_WORD, WBd, SpacesStar>> \o Cap(1, DigitRun(1, 4))
            \o <<WBd>>,
          <<WBd>> \o Cap(2, DigitRun(1, 4)) \o <<SpacesStar, UNIT_WORD, WBd>>
        >>)>>
RE_BAIR_XAALGA_TOKEN ==
  <<SpacesStar>> \o Cap(1, DigitRun(1, 5))
  \o <<SpacesStar, One(DASH_DOT_SLASH), SpacesStar>>
  \o Cap(2, DigitRun(1, 4)) \o <<SpacesStar, Eol>>

RE_BAIR_WORD ==
  <<WBd>> \o Cap(1, DigitRun(1, 5)) \o <<SpacesStar, BAIR_WORD, WBd>>
RE_KORPUS_WORD ==
  <<WBd>> \o Cap(1, DigitRun(1, 5)) \o <<SpacesStar, KORPUS_WORD, WBd>>
RE_TOOT_WORD ==
  <<WBd>> \o Cap(1, DigitRun(1, 5)) \o <<SpacesStar, UNIT_WORD, WBd>>
RE_BAIR_WORD_REV ==
  <<WBd, BAIR_WORD, SpacesStar>> \o Cap(1, DigitRun(1, 5)) \o <<WBd>>
RE_KORPUS_WORD_REV ==
  <<WBd, KORPUS_WORD, SpacesStar>> \o Cap(1, DigitRun(1, 5)) \o <<WBd>>
RE_TOOT_WORD_REV ==
  <<WBd, UNIT_WORD, SpacesStar>> \o Cap(1, DigitRun(1, 5)) \o <<WBd>>
RE_KORPUS_AND_DOOR ==
  <<WBd, KORPUS_WORD, SpacesStar>> \o Cap(1, DigitRun(1, 5))
  \o <<SpacesPlus>> \o Cap(2, DigitRun(1, 5)) \o <<WBd>>
RE_BAIR_IMPLICIT_KORPUS_DOOR ==
  <<WBd>> \o Cap(1, DigitRun(1, 5)) \o <<SpacesStar, BAIR_WORD, WBd, SpacesPlus>>
  \o Cap(2, DigitRun(1, 5)) \o <<SpacesPlus>> \o Cap(3, DigitRun(1, 5))
  \o <<WBd>>
RE_BAIR_IMPLICIT_KORPUS_DOOR_REV ==
  <<WBd, BAIR_WORD, SpacesStar>> \o Cap(1, DigitRun(1, 5)) \o <<SpacesPlus>>
  \o Cap(2, DigitRun(1, 5)) \o <<SpacesPlus>> \o Cap(3, DigitRun(1, 5))
  \o <<WBd>>
\* r"\b\d{1,5}\b"
RE_NUMBER == <<WBd>> \o Cap(1, DigitRun(1, 5)) \o <<WBd>>

\* a or b of two match objects
OrElse(m1, m2) == IF m1.ok THEN m1 ELSE m2

GroupInt(m, s, g) == ToInt(Group(m, s, g))

_korpus_clean(rem) ==
  LET k == SelectSeq(rem, LAMBDA c : c \in Digits \cup Letters)
  IN IF k # <<>> THEN k ELSE <<"0">>

\* the number of the last match of RE_NUMBER, 0 when there is none
RECURSIVE LastNumber(_, _, _)
LastNumber(s, p, last) ==
  LET m == SearchFrom(RE_NUMBER, s, p)
  IN IF m.ok THEN LastNumber(s, m.end, GroupInt(m, s, 1)) ELSE last

NoBuilding ==
  [bair |-> 0, korpus |-> <<"0">>, xaalga |-> 0, matched_pattern |-> "none",
   keyword_matched |-> FALSE]

\* lines 331-338: the implicit keyword case
ImplicitCase(text) ==
  LET m_imp == OrElse(Search(RE_BAIR_IMPLICIT_KORPUS_DOOR, text),
                      Search(RE_BAIR_IMPLICIT_KORPUS_DOOR_REV, text))
  IN IF m_imp.ok
     THEN [bair |-> GroupInt(m_imp, text, 1),
           korpus |-> IntToStr(GroupInt(m_imp, text, 2)),
           xaalga |-> GroupInt(m_imp, text, 3),
           matched_pattern |-> "keyword_bair_implicit_korpus_door",
           keyword_matched |-> TRUE]
     ELSE NoBuilding

\* lines 340-388: the keyword form, on the fields b that the implicit case
\* left
KeywordForm(text, b) ==
  LET m_bair == OrElse(Search(RE_BAIR_WORD, text),
                       Search(RE_BAIR_WORD_REV, text))
      m_korp_door == Search(RE_KORPUS_AND_DOOR, text)
      m_korpus == IF m_korp_door.ok THEN m_korp_door
                  ELSE OrElse(Search(RE_KORPUS_WORD, text),
                              Search(RE_KORPUS_WORD_REV, text))
      door_after_korpus == IF m_korp_door.ok
                           THEN GroupInt(m_korp_door, text, 2) ELSE 0
      m_toot == OrElse(Search(RE_TOOT_WORD, text),
                       Search(RE_TOOT_WORD_REV, text))
      \* line 355: keyword_matched = False
      b0 == [b EXCEPT !.keyword_matched = FALSE]
  IN IF m_bair.ok /\ (m_korpus.ok \/ m_toot.ok)
     THEN LET b_bair == GroupInt(m_bair, text, 1)
              b_korpus == IF m_korpus.ok
                          THEN IntToStr(GroupInt(m_korpus, text, 1))
                          ELSE <<"0">>
              cand == LastNumber(text, 1, 0)
              b_xaalga == IF m_toot.ok THEN GroupInt(m_toot, text, 1)
                          ELSE IF door_after_korpus > 0 THEN door_after_korpus
                          ELSE IF cand # 0 /\ cand # b_bair
                                  /\ IntToStr(cand) # b_korpus
                          THEN cand ELSE 0
          IN [bair |-> b_bair, korpus |-> b_korpus, xaalga |-> b_xaalga,
              matched_pattern |-> "keyword_bair_korpus_toot",
              keyword_matched |-> TRUE]
     ELSE IF ~m_bair.ok /\ m_korp_door.ok
     THEN [bair |-> 0,
           korpus |-> IntToStr(GroupInt(m_korp_door, text, 1)),
           xaalga |-> GroupInt(m_korp_door, text, 2),
           matched_pattern |-> "keyword_korpus_door",
           keyword_matched |-> TRUE]
     ELSE b0

KeywordParsing(text) == KeywordForm(text, ImplicitCase(text))

\* text.split(): the runs of symbols that are not white space
RECURSIVE SplitFrom(_, _)
SplitFrom(s, p) ==
  IF p > Len(s) THEN <<>>
  ELSE IF s[p] \in WS THEN SplitFrom(s, p + 1)
  ELSE LET n == RunLen(s, p, (Digits \cup Letters \cup SEP_CHARS \cup {","}))
       IN <<SubSeq(s, p, p + n - 1)>> \o SplitFrom(s, p + n)

HasDigit(b) == \E i \in 1..Len(b) : b[i] \in Digits

\* lines 394-395: the blocks that hold a digit, without " ,.;" at their ends
Blocks(text) ==
  LET numeric == SelectSeq(SplitFrom(text, 1), HasDigit)
  IN [i \in 1..Len(numeric) |-> StripOf(numeric[i], {" ", ",", ".", ";"})]

\* lines 250-274
_find_building_block_fallback(text) ==
  LET m1 == Search(RE_BAIR_KORPUS_XAALGA, text)
      m2 == Search(RE_BAIR_LETTER_XAALGA, text)
      m3 == Search(RE_BAIR_XAALGA, text)
      m4 == Search(RE_XAALGA_ONLY, text)
  IN IF m1.ok
     THEN [bair |-> GroupInt(m1, text, 1),
           korpus |-> _korpus_clean(Group(m1, text, 3)),
           xaalga |-> GroupInt(m1, text, 4),
           matched_pattern |-> "bair.korpus xaalga"]
     ELSE IF m2.ok
     THEN [bair |-> GroupInt(m2, text, 1),
           korpus |-> _korpus_clean(Group(m2, text, 2)),
           xaalga |-> GroupInt(m2, text, 3),
           matched_pattern |-> "bair+letter xaalga"]
     ELSE IF m3.ok
     THEN [bair |-> GroupInt(m3, text, 1), korpus |-> <<"0">>,
           xaalga |-> GroupInt(m3, text, 2),
           matched_pattern |-> "bair xaalga"]
     ELSE IF m4.ok
     THEN [bair |-> 0, korpus |-> <<"0">>,
           xaalga |-> IF Group(m4, text, 1) # <<>> THEN GroupInt(m4, text, 1)
                      ELSE GroupInt(m4, text, 2),
           matched_pattern |-> "xaalga only"]
     ELSE [bair |-> 0, korpus |-> <<"0">>, xaalga |-> 0,
           matched_pattern |-> "none"]

\* lines 397-404: the special rule for the only numeric block after a horoo
\* the special rule with building and unit taken from each other's group
SpecialRule_swapped(b, blocks, h) ==
  LET m == IF Len(blocks) = 1 THEN Match(RE_BAIR_XAALGA_TOKEN, blocks[1], 1, NoCaps)
           ELSE NoMatch
  IN IF h > 0 /\ Len(blocks) = 1 /\ m.ok
     THEN [b EXCEPT !.bair = GroupInt(m, blocks[1], 2), !.korpus = <<"0">>,
                    !.xaalga = GroupInt(m, blocks[1], 1),
                    !.matched_pattern = "bair-xaalga-no-korpus"]
     ELSE b

SpecialRule(b, blocks, h) ==
  LET m == IF Len(blocks) = 1 THEN Match(RE_BAIR_XAALGA_TOKEN, blocks[1], 1, NoCaps)
           ELSE NoMatch
  IN IF h > 0 /\ Len(blocks) = 1 /\ m.ok
     THEN [b EXCEPT !.bair = GroupInt(m, blocks[1], 1), !.korpus = <<"0">>,
                    !.xaalga = GroupInt(m, blocks[1], 2),
                    !.matched_pattern = "bair-xaalga-no-korpus"]
     ELSE b

\* lines 406-420: the strict content blocks
StrictBlocks(b, blocks) ==
  IF b.matched_pattern = "none" /\ Len(blocks) >= 2
  THEN LET first == blocks[1]
           last == blocks[Len(blocks)]
           m == Match(Cap(1, DigitsPlus), first, 1, NoCaps)
           b_bair == GroupInt(m, first, 1)
           rem == SubSeq(first, Len(IntToStr(b_bair)) + 1, Len(first))
           m2 == Search(DigitsPlus, last)
       IN IF ~m.ok THEN b
          ELSE IF ~m2.ok
          THEN [b EXCEPT !.bair = b_bair, !.korpus = _korpus_clean(rem)]
          ELSE [b EXCEPT !.bair = b_bair, !.korpus = _korpus_clean(rem),
                         !.xaalga = ToInt(SubSeq(last, m2.start, m2.end - 1)),
                         !.matched_pattern = "strict_content_blocks"]
  ELSE b

\* lines 393-424: the logic that runs when no keyword matched
OtherLogic(text, h, b) ==
  LET blocks == Blocks(text)
      b2 == StrictBlocks(SpecialRule(b, blocks, h), blocks)
      f == _find_building_block_fallback(text)
  IN IF b2.matched_pattern = "none"
     THEN [b2 EXCEPT !.bair = f.bair, !.korpus = f.korpus,
                     !.xaalga = f.xaalga,
                     !.matched_pattern = f.matched_pattern]
     ELSE b2

\* ---------------------------------------------------- ranges and confidence

HOROO_MAX == 99
BAIR_MAX == 99999
XAALGA_MAX == 99999

\* the range check that reports a building out of range and keeps it
_clamp_ranges_keep_bair(h, b, x) ==
  LET badH == h # 0 /\ ~(1 <= h /\ h <= HOROO_MAX)
      badB == b # 0 /\ ~(1 <= b /\ b <= BAIR_MAX)
      badX == x # 0 /\ ~(1 <= x /\ x <= XAALGA_MAX)
  IN [horoo |-> IF badH THEN 0 ELSE h,
      bair |-> b,
      xaalga |-> IF badX THEN 0 ELSE x,
      warnings |-> (IF badH THEN <<"horoo_out_of_range">> ELSE <<>>)
                   \o (IF badB THEN <<"bair_out_of_range">> ELSE <<>>)
                   \o (IF badX THEN <<"xaalga_out_of_range">> ELSE <<>>)]

_clamp_ranges(h, b, x) ==
  LET badH == h # 0 /\ ~(1 <= h /\ h <= HOROO_MAX)
      badB == b # 0 /\ ~(1 <= b /\ b <= BAIR_MAX)
      badX == x # 0 /\ ~(1 <= x /\ x <= XAALGA_MAX)
  IN [horoo |-> IF badH THEN 0 ELSE h,
      bair |-> IF badB THEN 0 ELSE b,
      xaalga |-> IF badX THEN 0 ELSE x,
      warnings |-> (IF badH THEN <<"horoo_out_of_range">> ELSE <<>>)
                   \o (IF badB THEN <<"bair_out_of_range">> ELSE <<>>)
                   \o (IF badX THEN <<"xaalga_out_of_range">> ELSE <<>>)]

\* the confidence that gives 0 without the warning not_enough_info
ConfidenceOf_silent(b, x, pattern) ==
  IF b > 0 /\ x > 0
  THEN [conf |-> IF pattern = "bair-xaalga-no-korpus" THEN 97
                 ELSE IF pattern = "keyword_bair_korpus_toot" THEN 99
                 ELSE 98,
        warnings |-> <<>>]
  ELSE IF pattern = "xaalga only" /\ x > 0
  THEN [conf |-> 30, warnings |-> <<"partial_only_xaalga">>]
  ELSE IF pattern = "keyword_korpus_door" /\ x > 0
  THEN [conf |-> 70, warnings |-> <<"partial_no_bair">>]
  ELSE [conf |-> 0, warnings |-> <<>>]

\* lines 430-445: the confidence, in hundredths, and its warning
ConfidenceOf(b, x, pattern) ==
  IF b > 0 /\ x > 0
  THEN [conf |-> IF pattern = "bair-xaalga-no-korpus" THEN 97
                 ELSE IF pattern = "keyword_bair_korpus_toot" THEN 99
                 ELSE 98,
        warnings |-> <<>>]
  ELSE IF pattern = "xaalga only" /\ x > 0
  THEN [conf |-> 30, warnings |-> <<"partial_only_xaalga">>]
  ELSE IF pattern = "keyword_korpus_door" /\ x > 0
  THEN [conf |-> 70, warnings |-> <<"partial_no_bair">>]
  ELSE [conf |-> 0, warnings |-> <<"not_enough_info">>]

\* ------------------------------------------------------------------ actions

\* the state before a call of text
Start(text) ==
  /\ pc = "idle" /\ caller = "" /\ raw = text /\ arg = <<>> /\ norm = <<>>
  /\ sumname = "" /\ horooid = 0 /\ content = <<>> /\ content_u = <<>>
  /\ bair = 0 /\ korpus = <<"0">> /\ xaalga = 0 /\ matched_pattern = "none"
  /\ keyword_matched = FALSE /\ warnings = <<>> /\ conf = 0

\* main.parse: the service strips and normalizes the text, then parses it
Parse ==
  /\ pc = "idle" /\ raw # None /\ Len(raw) >= 1
  /\ arg' = normalize_address(Strip(raw))
  /\ caller' = "service"
  /\ pc' = "normalize"
  /\ UNCHANGED <<raw, norm, sumname, horooid, content, content_u, bair,
                 korpus, xaalga, matched_pattern, keyword_matched, warnings,
                 conf>>

\* a caller of the library hands its text to parse_with_rules as it is
Call ==
  /\ pc = "idle"
  /\ arg' = raw
  /\ caller' = "direct"
  /\ pc' = "normalize"
  /\ UNCHANGED <<raw, norm, sumname, horooid, content, content_u, bair,
                 korpus, xaalga, matched_pattern, keyword_matched, warnings,
                 conf>>

Normalize ==
  /\ pc = "normalize"
  /\ norm' = normalize_address(arg)
  /\ pc' = "district"
  /\ UNCHANGED <<caller, raw, arg, sumname, horooid, content, content_u, bair,
                 korpus, xaalga, matched_pattern, keyword_matched, warnings,
                 conf>>

FindDistrict ==
  /\ pc = "district"
  /\ sumname' = _find_district(norm)
  /\ pc' = "horoo"
  /\ UNCHANGED <<caller, raw, arg, norm, horooid, content, content_u, bair,
                 korpus, xaalga, matched_pattern, keyword_matched, warnings,
                 conf>>

FindHoroo ==
  /\ pc = "horoo"
  /\ horooid' = _find_horoo(norm, sumname)
  /\ pc' = "remove"
  /\ UNCHANGED <<caller, raw, arg, norm, sumname, content, content_u, bair,
                 korpus, xaalga, matched_pattern, keyword_matched, warnings,
                 conf>>

StripContent ==
  /\ pc = "remove"
  /\ \E c \in {RemoveHoroo(norm, horooid)} :
       /\ content' = c
       /\ content_u' = RemoveAliases(c, sumname)
  /\ pc' = "keyword"
  /\ UNCHANGED <<caller, raw, arg, norm, sumname, horooid, bair, korpus,
                 xaalga, matched_pattern, keyword_matched, warnings, conf>>

Keyword ==
  /\ pc = "keyword"
  /\ \E b \in {KeywordParsing(content_u)} :
        /\ bair' = b.bair
        /\ korpus' = b.korpus
        /\ xaalga' = b.xaalga
        /\ matched_pattern' = b.matched_pattern
        /\ keyword_matched' = b.keyword_matched
        /\ pc' = IF b.keyword_matched THEN "clamp" ELSE "other"
  /\ UNCHANGED <<caller, raw, arg, norm, sumname, horooid, content, content_u,
                 warnings, conf>>

Other ==
  /\ pc = "other"
  /\ \E b \in {OtherLogic(content_u, horooid,
                          [bair |-> bair, korpus |-> korpus, xaalga |-> xaalga,
                           matched_pattern |-> matched_pattern,
                           keyword_matched |-> keyword_matched])} :
        /\ bair' = b.bair
        /\ korpus' = b.korpus
        /\ xaalga' = b.xaalga
        /\ matched_pattern' = b.matched_pattern
  /\ pc' = "clamp"
  /\ UNCHANGED <<caller, raw, arg, norm, sumname, horooid, content, content_u,
                 keyword_matched, warnings, conf>>

Clamp ==
  /\ pc = "clamp"
  /\ \E c \in {_clamp_ranges(horooid, bair, xaalga)} :
        /\ horooid' = c.horoo
        /\ bair' = c.bair
        /\ xaalga' = c.xaalga
        /\ warnings' = warnings \o c.warnings
  /\ pc' = "confidence"
  /\ UNCHANGED <<caller, raw, arg, norm, sumname, content, content_u, korpus,
                 matched_pattern, keyword_matched, conf>>

Confidence ==
  /\ pc = "confidence"
  /\ \E c \in {ConfidenceOf(bair, xaalga, matched_pattern)} :
        /\ conf' = c.conf
        /\ warnings' = warnings \o c.warnings
  /\ pc' = "done"
  /\ UNCHANGED <<caller, raw, arg, norm, sumname, horooid, content, content_u,
                 bair, korpus, xaalga, matched_pattern, keyword_matched>>

Next ==
  \/ Parse
  \/ Call
  \/ Normalize
  \/ FindDistrict
  \/ FindHoroo
  \/ StripContent
  \/ Keyword
  \/ Other
  \/ Clamp
  \/ Confidence

\* library calls only: parse_with_rules as a function of its text
NextRules ==
  \/ Call
  \/ Normalize
  \/ FindDistrict
  \/ FindHoroo
  \/ StripContent
  \/ Keyword
  \/ Other
  \/ Clamp
  \/ Confidence

\* ------------------------------------------------------------------- inputs

\* the longest request text of Spec, in symbols
MaxLen == 3
\* the most keyword groups and numbers after the district and the horoo
MaxGroups == 3
\* the most blocks after the district and the horoo
MaxBlocks == 2

\* the sequences of at most n elements of V
SeqsUpTo(V, n) == UNION {[1..k -> V] : k \in 0..n}

\* the words, with one space between two of them
RECURSIVE JoinWords(_)
JoinWords(ws) ==
  IF ws = <<>> THEN <<>>
  ELSE IF Len(ws) = 1 THEN ws[1]
  ELSE ws[1] \o <<" ">> \o JoinWords(Tail(ws))

\* the symbols of the request texts of Spec
RequestSymbols == {"2", "BAIR", "TOOT", "toot", " ", ",", "\t"}
Requests == SeqsUpTo(RequestSymbols, MaxLen) \cup {None}

\* what an address starts with
DistrictWords == {<<>>, <<"SBD">>}
HorooWords == {<<>>, <<"3", " ", "HOROO">>}

\* a keyword with its number, in either order, and a number alone
KeywordGroups ==
  {<<"BAIR", " ", "2">>, <<"2", " ", "BAIR">>,
   <<"KORPUS", " ", "3">>, <<"3", " ", "KORPUS">>,
   <<"TOOT", " ", "5">>, <<"5", " ", "TOOT">>,
   <<"5">>}

\* numbers and the blocks that hold a separator or a letter
NumberBlocks ==
  {<<"2">>, <<"3">>, <<"1", "2", "3", "4", "5", "6">>,
   <<"1", "0", "/", "5">>, <<"3", "-", "4">>,
   <<"2", "-", "1", "2", "3", "4", "5">>, <<"3", "#", "4">>,
   <<"#", "2">>, <<"#", "2", "/", "5">>, <<"#", "2", "A">>, <<"2", "A">>}

NonEmpty(ws) == SelectSeq(ws, LAMBDA w : w # <<>>)

\* a district, a horoo and blocks; or a horoo and keyword groups
Addresses ==
  {JoinWords(NonEmpty(<<d, h>> \o body)) :
     d \in DistrictWords, h \in HorooWords,
     body \in SeqsUpTo(NumberBlocks, MaxBlocks)}
  \cup
  {JoinWords(NonEmpty(<<h>> \o body)) :
     h \in HorooWords, body \in SeqsUpTo(KeywordGroups, MaxGroups)}

Init == \E text \in Requests : Start(text)
InitRules == \E text \in Addresses : Start(text)

\* the service and the library, on every short request text
Spec == Init /\ [][Next]_vars
\* the library, on addresses
SpecRules == InitRules /\ [][NextRules]_vars

\* ------------------------------------------------------------------- claims

\* the whole of s matches re
FullMatch(re, s) == Match(re \o <<Eol>>, s, 1, NoCaps)

\* C1: a residual text "BAIR b KORPUS k TOOT u" gives building b, block
\* str(k), unit u and the pattern keyword_bair_korpus_toot.
C1_Shape ==
  <<BAIR_WORD, SpacesPlus>> \o Cap(1, DigitRun(1, 5))
  \o <<SpacesPlus, KORPUS_WORD, SpacesPlus>> \o Cap(2, DigitRun(1, 5))
  \o <<SpacesPlus, UNIT_WORD, SpacesPlus>> \o Cap(3, DigitRun(1, 5))
C1_KeywordBeforeNumber ==
  LET m == FullMatch(C1_Shape, content_u)
  IN (pc = "done" /\ m.ok) =>
       /\ bair = GroupInt(m, content_u, 1)
       /\ korpus = IntToStr(GroupInt(m, content_u, 2))
       /\ xaalga = GroupInt(m, content_u, 3)
       /\ matched_pattern = "keyword_bair_korpus_toot"

\* C2: normalize_address is idempotent: the text the service normalized is
\* left as it is when parse_with_rules normalizes it again.
C2_Idempotent ==
  (caller = "service" /\ pc \notin {"idle", "normalize"}) => norm = arg

\* C3: when the residual text satisfies the implicit-triple rule, the result
\* is building d1, block str(d2), unit d3 and the pattern
\* keyword_bair_implicit_korpus_door, whatever else the text holds.
C3_ImplicitWins ==
  LET m == OrElse(Search(RE_BAIR_IMPLICIT_KORPUS_DOOR, content_u),
                  Search(RE_BAIR_IMPLICIT_KORPUS_DOOR_REV, content_u))
  IN (pc = "done" /\ m.ok) =>
       /\ bair = GroupInt(m, content_u, 1)
       /\ korpus = IntToStr(GroupInt(m, content_u, 2))
       /\ xaalga = GroupInt(m, content_u, 3)
       /\ matched_pattern = "keyword_bair_implicit_korpus_door"

\* C4: the confidence is between 0 and 1, and it is 0 exactly when building
\* and unit are both 0 and no partial-credit pattern fired.
C4_ConfidenceZeroIff ==
  pc = "done" =>
    /\ 0 <= conf /\ conf <= 100
    /\ conf = 0 <=>
         (bair = 0 /\ xaalga = 0
          /\ matched_pattern \notin {"xaalga only", "keyword_korpus_door"})

\* C5: in every result the horoo is 0 or in 1..99, building and unit are 0
\* or in 1..99999 and the block is "0" or letters and digits only; a field
\* extracted out of its range is reset to 0 with its *_out_of_range warning,
\* the warnings in the order horoo, building, unit.
C5_Rank(w) ==
  CASE w = "horoo_out_of_range" -> 1
    [] w = "bair_out_of_range" -> 2
    [] w = "xaalga_out_of_range" -> 3
    [] OTHER -> 4
C5_Ranges ==
  pc = "done" =>
    /\ horooid \in 0..HOROO_MAX
    /\ bair \in 0..BAIR_MAX
    /\ xaalga \in 0..XAALGA_MAX
    /\ korpus # <<>>
    /\ \A i \in 1..Len(korpus) : korpus[i] \in Digits \cup Letters
C5_Reset ==
  pc = "clamp" =>
    /\ horooid > HOROO_MAX =>
         horooid' = 0 /\ \E i \in 1..Len(warnings') :
                           warnings'[i] = "horoo_out_of_range"
    /\ bair > BAIR_MAX =>
         bair' = 0 /\ \E i \in 1..Len(warnings') :
                        warnings'[i] = "bair_out_of_range"
    /\ xaalga > XAALGA_MAX =>
         xaalga' = 0 /\ \E i \in 1..Len(warnings') :
                          warnings'[i] = "xaalga_out_of_range"
    /\ \A i, j \in 1..Len(warnings') :
         i < j => C5_Rank(warnings'[i]) < C5_Rank(warnings'[j])
C5_RangeInvariant == [](C5_Ranges) /\ [][C5_Reset]_vars
\* a building number out of its range was extracted, reset and reported
C5_Witness ==
  /\ pc = "done" /\ bair = 0 /\ xaalga > 0
  /\ warnings = <<"bair_out_of_range", "not_enough_info">>

\* C6: with a horoo h > 0, a bare h that is followed by a separator of
\* SEP_CHARS and a digit is not erased from the residual text.
C6_SeparatorGuard ==
  (pc = "keyword" /\ horooid > 0
   /\ Search(<<NotBehind(Digits), WBd>> \o LitSeq(IntToStr(horooid))
             \o <<WBd, One(SEP_CHARS), One(Digits)>>, norm).ok)
  => Search(<<WBd>> \o LitSeq(IntToStr(horooid)) \o <<One(SEP_CHARS)>>,
            content_u).ok

\* the digits before and after the only separator of a block N<sep>M
C7_SepAt(tok) == {i \in 2..(Len(tok) - 1) : tok[i] \in DASH_DOT_SLASH}
C7_IsCompact(tok) ==
  /\ Cardinality(C7_SepAt(tok)) = 1
  /\ \A i \in 1..Len(tok) : tok[i] \in Digits \cup DASH_DOT_SLASH
C7_N(tok) == SubSeq(tok, 1, (CHOOSE i \in C7_SepAt(tok) : TRUE) - 1)
C7_M(tok) == SubSeq(tok, (CHOOSE i \in C7_SepAt(tok) : TRUE) + 1, Len(tok))
C7_Result(tok) ==
  /\ bair = ToInt(C7_N(tok))
  /\ korpus = <<"0">>
  /\ xaalga = ToInt(C7_M(tok))
  /\ matched_pattern = "bair-xaalga-no-korpus"
  /\ (bair > 0 /\ xaalga > 0) => conf = 97
\* C7, as claimed: when no keyword rule matched and the residual text holds
\* exactly one numeric block, of the shape N<sep>M, the result is building
\* N, block "0", unit M, whether or not a horoo was resolved.
C7_CompactAnyHoroo ==
  LET blocks == Blocks(content_u)
  IN (pc = "done" /\ ~keyword_matched /\ Len(blocks) = 1
      /\ C7_IsCompact(blocks[1]))
     => C7_Result(blocks[1])
\* C7, amended: the same when a horoo was resolved (horoo > 0), N has at
\* most 5 digits and M at most 4.
C7_CompactAfterHoroo ==
  LET blocks == Blocks(content_u)
  IN (pc = "done" /\ ~keyword_matched /\ Len(blocks) = 1
      /\ C7_IsCompact(blocks[1]) /\ horooid > 0
      /\ Len(C7_N(blocks[1])) <= 5 /\ Len(C7_M(blocks[1])) <= 4)
     => C7_Result(blocks[1])
C7_Witness ==
  /\ pc = "done" /\ horooid = 3 /\ content_u = <<"3", "-", "4">>
  /\ bair = 3 /\ xaalga = 4 /\ conf = 97

\* C8: a district alias followed by "N/K M", with no horoo word, gives no
\* horoo, the district, building N, block str(K), unit M, the pattern
\* strict_content_blocks and the confidence 0.98.
C8_Shape ==
  Lit("SBD") \o <<SpacesPlus>> \o Cap(1, DigitRun(1, 2)) \o Lit("/")
  \o Cap(2, DigitRun(1, 2)) \o <<SpacesPlus>> \o Cap(3, DigitRun(1, 4))
C8_DistrictThenBlock ==
  LET m == FullMatch(C8_Shape, norm)
  IN (pc = "done" /\ m.ok /\ GroupInt(m, norm, 1) > 0
      /\ GroupInt(m, norm, 3) > 0)
     => /\ horooid = 0
        /\ sumname = "cSUKHBAATAR"
        /\ bair = GroupInt(m, norm, 1)
        /\ korpus = IntToStr(GroupInt(m, norm, 2))
        /\ xaalga = GroupInt(m, norm, 3)
        /\ matched_pattern = "strict_content_blocks"
        /\ conf = 98

\* C9: a text whose normalized form is empty gives no district, 0 for the
\* horoo, the building and the unit, block "0", the pattern "none", the
\* confidence 0 and the only warning not_enough_info.
C9_EmptyInput ==
  (pc = "done" /\ norm = <<>>) =>
    /\ sumname = "" /\ horooid = 0 /\ bair = 0 /\ korpus = <<"0">>
    /\ xaalga = 0 /\ matched_pattern = "none" /\ conf = 0
    /\ warnings = <<"not_enough_info">>
\* white space and commas only, through the service
C9_Witness ==
  /\ pc = "done" /\ caller = "service" /\ norm = <<>>
  /\ raw = <<",", "\t", " ">> /\ warnings = <<"not_enough_info">>

\* C10: with a horoo h > 0, an h that is the number of a building, block or
\* unit keyword stays in the residual text, the keyword before it or after.
C10_KeywordThenH(h) ==
  <<WBd, GUARD_WORD, SpacesStar>> \o LitSeq(IntToStr(h)) \o <<WBd>>
C10_HThenKeyword(h) ==
  <<NotBehind(Digits), WBd>> \o LitSeq(IntToStr(h))
  \o <<SpacesStar, GUARD_WORD, WBd>>
C10_KeywordGuardBothSides ==
  (pc = "keyword" /\ horooid > 0) =>
    /\ Search(C10_KeywordThenH(horooid), norm).ok
         => Search(C10_KeywordThenH(horooid), content_u).ok
    /\ Search(C10_HThenKeyword(horooid), norm).ok
         => Search(C10_HThenKeyword(horooid), content_u).ok

====
